---- MODULE Spec2Model ----
(***************************************************************************)
(* kaspa_register: the write-session coordinator (start_writer and its     *)
(* background task), the SSE fan-out, the PN532 enable/disable hooks and   *)
(* the NTAG21x writer (NDEF/TLV codec, capacity check, page writes and     *)
(* read-back verify), as a state machine.                                  *)
(*                                                                         *)
(* Text is a sequence of code points, bytes are 0..255, Python's None is   *)
(* the string "None", Python's True/False results are "True"/"False".      *)
(***************************************************************************)
EXTENDS Integers, Sequences, FiniteSets, TLC

\* ------------------------------------------------------------------ bounds
NumCallers == 2      \* concurrent HTTP request threads calling start_writer
MaxTasks == 2        \* writer threads alive at once (a finished one may still broadcast)
NumSubs == 1         \* SSE subscribers of the coordinator specification
FanOutSubs == 2      \* SSE subscribers of the fan-out specification
FanOutSessions == 4  \* sessions of the fan-out specification
MaxSessions == 2     \* accepted write sessions per behaviour of Spec
WriterSessions == 1  \* accepted write sessions per behaviour of SpecWriter
MaxFaults == 1       \* hardware exchanges that raise, per behaviour of Spec
WriterFaults == 2    \* hardware exchanges that raise, per behaviour of SpecWriter
MaxFaultPage == 5    \* a page write may fail only on pages up to this one
LongUriLen == 500    \* length of the long URI (more than an NTAG215 holds)

\* ------------------------------------------------------- program constants
QueueMaxSize == 10   \* queue.Queue(maxsize=10)
FirstUserPage == 4
NdefMagic == 225     \* 0xE1
TlvNdef == 3         \* 0x03
TlvTerminator == 254 \* 0xFE
TypeU == 85          \* "U"
TypeT == 84          \* "T"

\* ----------------------------------------------------------------- helpers
Min(a, b) == IF a < b THEN a ELSE b

\* Python's s[a:b] on a sequence, 0-based, clamped to the sequence
Slice(s, a, b) == SubSeq(s, Min(a, Len(s)) + 1, Min(b, Len(s)))

\* Python's s[i], 0-based
At(s, i) == s[i + 1]

StartsWith(s, p) == Len(p) <= Len(s) /\ SubSeq(s, 1, Len(p)) = p

Bit(b, mask) == (b \div mask) % 2 = 1

\* the URI abbreviation table of _ndef_uri_bytes / _parse_ndef_records
prefixes ==
    << 
       <<>>,   \* 0 ''
       <<104,116,116,112,58,47,47,119,119,119,46>>,   \* 1 'http://www.'
       <<104,116,116,112,115,58,47,47,119,119,119,46>>,   \* 2 'https://www.'
       <<104,116,116,112,58,47,47>>,   \* 3 'http://'
       <<104,116,116,112,115,58,47,47>>,   \* 4 'https://'
       <<116,101,108,58>>,   \* 5 'tel:'
       <<109,97,105,108,116,111,58>>,   \* 6 'mailto:'
       <<102,116,112,58,47,47,97,110,111,110,121,109,111,117,115,58,97,110,111,110,121,109,111,117,115,64>>,   \* 7 'ftp://anonymous:anonymous@'
       <<102,116,112,58,47,47,102,116,112,46>>,   \* 8 'ftp://ftp.'
       <<102,116,112,115,58,47,47>>,   \* 9 'ftps://'
       <<115,102,116,112,58,47,47>>,   \* 10 'sftp://'
       <<115,109,98,58,47,47>>,   \* 11 'smb://'
       <<110,102,115,58,47,47>>,   \* 12 'nfs://'
       <<102,116,112,58,47,47>>,   \* 13 'ftp://'
       <<100,97,118,58,47,47>>,   \* 14 'dav://'
       <<110,101,119,115,58>>,   \* 15 'news:'
       <<116,101,108,110,101,116,58,47,47>>,   \* 16 'telnet://'
       <<105,109,97,112,58>>,   \* 17 'imap:'
       <<114,116,115,112,58,47,47>>,   \* 18 'rtsp://'
       <<117,114,110,58>>,   \* 19 'urn:'
       <<112,111,112,58>>,   \* 20 'pop:'
       <<115,105,112,58>>,   \* 21 'sip:'
       <<115,105,112,115,58>>,   \* 22 'sips:'
       <<116,102,116,112,58>>,   \* 23 'tftp:'
       <<98,116,115,112,112,58,47,47>>,   \* 24 'btspp://'
       <<98,116,108,50,99,97,112,58,47,47>>,   \* 25 'btl2cap://'
       <<98,116,103,111,101,112,58,47,47>>,   \* 26 'btgoep://'
       <<116,99,112,111,98,101,120,58,47,47>>,   \* 27 'tcpobex://'
       <<105,114,100,97,111,98,101,120,58,47,47>>,   \* 28 'irdaobex://'
       <<102,105,108,101,58,47,47>>,   \* 29 'file://'
       <<117,114,110,58,101,112,99,58,105,100,58>>,   \* 30 'urn:epc:id:'
       <<117,114,110,58,101,112,99,58,116,97,103,58>>,   \* 31 'urn:epc:tag:'
       <<117,114,110,58,101,112,99,58,112,97,116,58>>,   \* 32 'urn:epc:pat:'
       <<117,114,110,58,101,112,99,58,114,97,119,58>>,   \* 33 'urn:epc:raw:'
       <<117,114,110,58,101,112,99,58>>,   \* 34 'urn:epc:'
       <<117,114,110,58,110,102,99,58>>    \* 35 'urn:nfc:'
    >>

\* the concatenation of f[lo], ..., f[hi], by halves (text of a few hundred
\* characters is folded without deep recursion)
RECURSIVE Concat(_, _, _)
Concat(f, lo, hi) ==
    IF lo > hi THEN <<>>
    ELSE IF lo = hi THEN f[lo]
    ELSE LET mid == (lo + hi) \div 2
         IN  Concat(f, lo, mid) \o Concat(f, mid + 1, hi)

\* str.encode("utf-8") for code points below 0x800
Utf8Encode(s) ==
    Concat([k \in 1..Len(s) |-> IF s[k] < 128 THEN <<s[k]>>
                                ELSE <<192 + (s[k] \div 64), 128 + (s[k] % 64)>>],
           1, Len(s))

\* bytes.decode(errors="ignore") for one- and two-byte sequences: an ASCII byte
\* is a character, a lead byte 0xC2..0xDF with its continuation byte is one, and a
\* byte that is part of no valid sequence is dropped
Utf8Decode(b) ==
    LET IsLead(k) == b[k] >= 194 /\ b[k] <= 223
        IsCont(k) == b[k] >= 128 /\ b[k] <= 191
    IN  Concat([k \in 1..Len(b) |->
                   IF b[k] < 128 THEN <<b[k]>>
                   ELSE IF IsLead(k) /\ k < Len(b) /\ IsCont(k + 1)
                        THEN <<(b[k] - 192) * 64 + (b[k + 1] - 128)>>
                        ELSE <<>>],
               1, Len(b))

\* faulty variant of the choice: the first table entry the uri starts with
BestPrefixFirst(uri) ==
    LET matches == {i \in 1..Len(prefixes) :
                       prefixes[i] # <<>> /\ StartsWith(uri, prefixes[i])}
    IN  IF matches = {} THEN 0
        ELSE (CHOOSE i \in matches : \A j \in matches : i <= j) - 1

\* the longest non-empty table entry the uri starts with (0 when none); the
\* loop keeps the first of the longest, entries being distinct that is the one
BestPrefix(uri) ==
    LET matches == {i \in 1..Len(prefixes) :
                       prefixes[i] # <<>> /\ StartsWith(uri, prefixes[i])}
    IN  IF matches = {} THEN 0
        ELSE (CHOOSE i \in matches :
                 \A j \in matches : Len(prefixes[j]) < Len(prefixes[i])
                                    \/ (Len(prefixes[j]) = Len(prefixes[i]) /\ i <= j)) - 1

\* n.to_bytes(4, "big")
ToBytes4(n) == << (n \div 16777216) % 256, (n \div 65536) % 256,
                  (n \div 256) % 256, n % 256 >>

\* faulty variant of the record-form test: 256 bytes still take the short form
IsShortRecordUpTo256(n) == n <= 256

\* the short-record form is used for a payload shorter than 256 bytes
IsShortRecord(n) == n < 256

\* Ntag21xWriter._ndef_uri_bytes
NdefUriBytes(uri) ==
    LET pidx    == BestPrefix(uri)
        best    == prefixes[pidx + 1]
        tail    == Utf8Encode(SubSeq(uri, Len(best) + 1, Len(uri)))
        payload == <<pidx>> \o tail
    IN  IF IsShortRecord(Len(payload))
        THEN <<209, 1, Len(payload)>> \o <<TypeU>> \o payload
        ELSE <<193, 1>> \o ToBytes4(Len(payload)) \o <<TypeU>> \o payload

\* the TLV built by write_with_ntag_writer: 0x03, length, message, 0xFE, zero padding
RECURSIVE Pad4(_)
Pad4(b) == IF Len(b) % 4 = 0 THEN b ELSE Pad4(b \o <<0>>)

\* faulty variant of the length-form test: the switch is made at 256
UsesExtLengthFrom256(n) == n >= 256

\* the TLV length takes the 3-byte form from 255 (0xFF) on
UsesExtLength(n) == n >= 255

BuildTlv(ndef) ==
    Pad4((IF UsesExtLength(Len(ndef))
          THEN <<TlvNdef, 255, (Len(ndef) \div 256) % 256, Len(ndef) % 256>>
          ELSE <<TlvNdef, Len(ndef)>>) \o ndef \o <<TlvTerminator>>)

\* ------------------------------------------------------------------ decode
HexDigit(n) == IF n < 10 THEN 48 + n ELSE 87 + n

\* bytes.hex()
Hex(b) == Concat([k \in 1..Len(b) |-> <<HexDigit(b[k] \div 16), HexDigit(b[k] % 16)>>],
                 1, Len(b))

TxtNdefUri == <<78,68,69,70,32,85,82,73,58,32>>      \* "NDEF URI: "
TxtNdefText == <<78,68,69,70,32,84,101,120,116,91>>  \* "NDEF Text["
TxtNdef == <<78,68,69,70,32>>                        \* "NDEF "

PrefixAt(idx) == IF idx < Len(prefixes) THEN prefixes[idx + 1] ELSE <<>>

\* the description _parse_ndef_records appends for one record
DescribeRecord(t, payload) ==
    LET tstr == Utf8Decode(t)
    IN  IF tstr = <<TypeU>> /\ payload # <<>>
        THEN TxtNdefUri \o PrefixAt(payload[1]) \o Utf8Decode(Tail(payload))
        ELSE IF tstr = <<TypeT>> /\ payload # <<>>
        THEN LET lang_len == payload[1] % 64
             IN  TxtNdefText \o Utf8Decode(Slice(payload, 1, 1 + lang_len))
                    \o <<93, 58, 32, 34>>
                    \o Utf8Decode(Slice(payload, 1 + lang_len, Len(payload)))
                    \o <<34>>
        ELSE TxtNdef \o (IF tstr # <<>> THEN tstr ELSE Hex(t)) \o <<58, 32>> \o Hex(payload)

\* the record loop of _parse_ndef_records from offset i; err is the IndexError
\* of reading the id length past the end of the message
RECURSIVE ParseLoop(_, _, _)
ParseLoop(msg, i, out) ==
    IF i >= Len(msg) \/ i + 1 >= Len(msg) THEN [err |-> FALSE, out |-> out]
    ELSE
    LET hdr  == At(msg, i)
        tlen == At(msg, i + 1)
        sr   == Bit(hdr, 16)
        i2   == i + 2
    IN  IF sr /\ i2 >= Len(msg) THEN [err |-> FALSE, out |-> out]
        ELSE IF ~sr /\ i2 + 1 >= Len(msg) THEN [err |-> FALSE, out |-> out]
        ELSE
        LET plen == IF sr THEN At(msg, i2) ELSE At(msg, i2) * 256 + At(msg, i2 + 1)
            i3   == IF sr THEN i2 + 1 ELSE i2 + 2
            il   == Bit(hdr, 8)
        IN  IF il /\ i3 >= Len(msg) THEN [err |-> TRUE, out |-> out]
            ELSE
            LET ilen    == IF il THEN At(msg, i3) ELSE 0
                i4      == IF il THEN i3 + 1 ELSE i3
                t       == Slice(msg, i4, i4 + tlen)
                i5      == i4 + tlen + ilen
                payload == Slice(msg, i5, i5 + plen)
                i6      == i5 + plen
                out2    == Append(out, DescribeRecord(t, payload))
            IN  IF Bit(hdr, 64) THEN [err |-> FALSE, out |-> out2]
                ELSE ParseLoop(msg, i6, out2)

\* Ntag21xWriter._parse_ndef_records
ParseNdefRecords(msg) ==
    IF Len(msg) >= 3 /\ At(msg, 1) = TypeU /\ At(msg, 0) = Len(msg) - 2
    THEN [err |-> FALSE,
          out |-> << TxtNdefUri \o PrefixAt(At(msg, 2))
                       \o Utf8Decode(Slice(msg, 3, 3 + At(msg, 0) - 1)) >>]
    ELSE ParseLoop(msg, 0, <<>>)

\* faulty variant of the extended length: the high byte is ignored
ExtLengthLowOnly(hi, lo) == lo

\* the 2-byte big-endian length that follows a length byte of 0xFF
ExtLength(hi, lo) == hi * 256 + lo

\* the TLV scan of Ntag21xWriter.verify over the read-back buffer, from offset i:
\* the value of the first NDEF-message TLV, or empty.  NULL bytes are skipped to
\* the next non-zero tag
RECURSIVE ScanTlv(_, _)
ScanTlv(buf, i) ==
    LET nonzero == {j \in i..(Len(buf) - 1) : At(buf, j) # 0}
    IN  IF nonzero = {} THEN <<>>
        ELSE LET k == CHOOSE j \in nonzero : \A j2 \in nonzero : j <= j2
                 t == At(buf, k)
             IN  IF t = TlvTerminator THEN <<>>
                 ELSE IF k + 1 >= Len(buf) THEN <<>>
                 ELSE LET L1 == At(buf, k + 1)
                      IN  IF L1 = 255 /\ k + 2 + 2 > Len(buf) THEN <<>>
                          ELSE LET L  == IF L1 = 255
                                         THEN ExtLength(At(buf, k + 2), At(buf, k + 3))
                                         ELSE L1
                                   iv == IF L1 = 255 THEN k + 4 ELSE k + 2
                               IN  IF iv + L > Len(buf) THEN <<>>
                                   ELSE IF t = TlvNdef THEN Slice(buf, iv, iv + L)
                                   ELSE ScanTlv(buf, iv + L)

\* Ntag21xWriter._last_user_page_from_capacity
LastUserPage(capacity_bytes) == FirstUserPage + (capacity_bytes \div 4) - 1

AcceptedCapacities == {496, 504, 872, 888}

\* ------------------------------------------------------------------ inputs
ShortUri == <<104,116,116,112,115,58,47,47,101,120,97,109,112,108,101,46,99,111,109,47,97>>
                                              \* "https://example.com/a"
LongUri == <<107,97,115,112,97,58>> \o [i \in 1..(LongUriLen - 6) |-> 97]
                                              \* "kaspa:aaa...", LongUriLen characters
Uris == {ShortUri, LongUri}
TelUri == <<116,101,108,58,49>>               \* "tel:1"
SessionUris == {ShortUri, TelUri}

Kinds == {"pn532", "acr", "usb"}              \* "usb" is no known transport

\* Capability Containers of the tags presented: NTAG215 (0x3E * 8 = 496 and
\* 0x3F * 8 = 504), NTAG216 (0x6F * 8 = 888), an unknown size (0x6E * 8 = 880),
\* not NDEF
TagCCs == { <<225, 16, 62, 0>>, <<225, 16, 63, 0>>, <<225, 16, 111, 0>>,
            <<225, 16, 110, 0>>, <<0, 0, 0, 0>> }

\* the tags and the URIs of Spec, which is about the coordinator
CoordTagCCs == { <<225, 16, 62, 0>> }
CoordUris == {ShortUri}
CoordKinds == {"pn532", "usb"}

TagUid == "04A1B2C3D4E5F6"

Callers == 1..NumCallers
Tasks == 1..MaxTasks
Subs == 1..FanOutSubs
CoordSubs == 1..NumSubs

\* how a hardware exchange ends: it returns, raises NfcError (or a subclass),
\* or raises some other exception of the driver
Outcomes == {"ok", "NfcError", "Exception"}

\* get_transport raises ValueError for an unknown kind
ResolveOutcomes == Outcomes \cup {"ValueError"}

\* ------------------------------------------------------------------- state
VARIABLES
    status,           \* the status dict
    sse_clients,      \* the subscribers in _sse_clients
    queues,           \* each subscriber's queue.Queue(maxsize=10)
    sub_open,         \* whether the subscriber's /events generator is running
    cpc,              \* where each request thread is in index() / start_writer
    creq,             \* the uri and transport of the request in progress
    chtml,            \* the html a request thread rendered and has yet to fan out
    ret,              \* what start_writer returned to the request thread
    created,          \* whether that call created a session
    task,             \* the writer threads: position and locals of _task
    transport_cache,  \* _transport_cache: 0 is None, else the instance number
    constructed,      \* transport instances constructed so far, per kind
    pn_uid,           \* PN532Type2Transport._uid
    rst_pin,          \* _rst_pin.value
    ready_led,        \* _ready_led.value
    tag_cc,           \* page 3 of the tag
    tag_mem,          \* the tag's pages that were written (all others read as zero)
    config_verify,    \* config["verify"]
    budget,           \* sessions that may still be accepted in this behaviour
    faults_left,      \* hardware exchanges that may still raise in this behaviour
    codec             \* the codec and addressing functions applied to one input

\* the state of the application
appVars == << status, sse_clients, queues, sub_open, cpc, creq, chtml, ret, created,
              task, transport_cache, constructed, pn_uid, rst_pin, ready_led,
              tag_cc, tag_mem, config_verify, budget, faults_left >>

vars == << appVars, codec >>

NoHtml == [alert |-> "none"]

FreeTask == [pc |-> "free", uri |-> <<>>, transport |-> "", ok |-> FALSE, msg |-> "",
             uid |-> "None", records |-> <<>>, uid_hex |-> "None", cap |-> 0,
             wlog |-> <<>>, rlog |-> <<>>, hw |-> <<>>, tport |-> 0,
             html |-> NoHtml]

\* the state after the module is loaded, with the tag presented and the
\* configured verify flag
Boot(ccs, nsessions, nfaults) ==
    /\ status = [running |-> FALSE, ok |-> "None", message |-> "", wrote_uri |-> <<>>,
                 uid |-> "None", records |-> <<>>, phase |-> "idle"]
    /\ sse_clients = {}
    /\ queues = [s \in Subs |-> <<>>]
    /\ sub_open = [s \in Subs |-> FALSE]
    /\ cpc = [c \in Callers |-> "ready"]
    /\ creq = [c \in Callers |-> [uri |-> <<>>, transport |-> ""]]
    /\ chtml = [c \in Callers |-> NoHtml]
    /\ ret = [c \in Callers |-> "None"]
    /\ created = [c \in Callers |-> FALSE]
    /\ task = [t \in Tasks |-> FreeTask]
    /\ transport_cache = [pn532 |-> 0, acr |-> 0]
    /\ constructed = [pn532 |-> 0, acr |-> 0]
    /\ pn_uid = "None"
    /\ rst_pin = FALSE
    /\ ready_led = FALSE
    /\ tag_cc \in ccs
    /\ tag_mem = << >>
    /\ config_verify \in BOOLEAN
    /\ budget = nsessions
    /\ faults_left = nfaults

\* no input is given to the codec functions on their own
CodecOff == [job |-> "off", pc |-> "off", cc |-> <<>>, uri |-> <<>>, want |-> <<>>,
             verdict |-> "", cap |-> 0, last |-> 0, ndef |-> <<>>, tlv |-> <<>>,
             buf |-> <<>>, scanned |-> <<>>, records |-> <<>>, err |-> FALSE]

Init == Boot(CoordTagCCs, MaxSessions, MaxFaults) /\ codec = CodecOff

InitWriter == Boot(TagCCs, WriterSessions, WriterFaults) /\ codec = CodecOff

\* --------------------------------------------------------------- broadcast
\* _status_context: the snapshot of status taken under status_lock
StatusContext == status

\* _render_status_html, by what _status_html_fallback shows of a snapshot
Render(ctx, verify) ==
    IF ctx.running
    THEN IF verify /\ ctx.phase = "verifying" THEN [alert |-> "Verifying"]
         ELSE IF ctx.phase = "writing" THEN [alert |-> "Writing"]
         ELSE [alert |-> "Waiting for tag"]
    ELSE IF ctx.ok # "None"
    THEN IF ctx.ok = "True"
         THEN [alert |-> IF verify THEN "Wrote and verified" ELSE "Wrote",
               wrote_uri |-> ctx.wrote_uri,
               uid |-> ctx.uid,
               records |-> IF verify THEN ctx.records ELSE <<>>]
         ELSE [alert |-> "Write failed", message |-> ctx.message]
    ELSE [alert |-> "Idle"]

\* faulty variant of the drop: no subscriber is ever found dead
DeadClientsNone == {}

\* the subscribers whose queue is full: put_nowait raises and they are dropped
DeadClients == {s \in sse_clients : Len(queues[s]) >= QueueMaxSize}

\* faulty variant of the fan-out: nothing is enqueued
FanOutNothing(html) == UNCHANGED << queues, sse_clients >>

\* the fan-out of _broadcast_status under _sse_lock
FanOut(html) ==
    /\ queues' = [s \in Subs |-> IF s \in sse_clients \ DeadClients
                                 THEN Append(queues[s], html) ELSE queues[s]]
    /\ sse_clients' = sse_clients \ DeadClients

\* /events: a new subscriber appends its queue to _sse_clients
Subscribe(s) ==
    /\ ~sub_open[s]
    /\ sub_open' = [sub_open EXCEPT ![s] = TRUE]
    /\ queues' = [queues EXCEPT ![s] = <<>>]
    /\ sse_clients' = sse_clients \cup {s}
    /\ UNCHANGED << codec, status, cpc, creq, chtml, ret, created, task, transport_cache,
                    constructed, pn_uid, rst_pin, ready_led, tag_cc, tag_mem,
                    config_verify, budget, faults_left >>

\* the generator of /events takes the next html off its queue
Consume(s) ==
    /\ sub_open[s]
    /\ queues[s] # <<>>
    /\ queues' = [queues EXCEPT ![s] = Tail(@)]
    /\ UNCHANGED << codec, status, sse_clients, sub_open, cpc, creq, chtml, ret, created, task,
                    transport_cache, constructed, pn_uid, rst_pin, ready_led, tag_cc,
                    tag_mem, config_verify, budget, faults_left >>

\* the client disconnects: the generator's finally removes its queue
Disconnect(s) ==
    /\ sub_open[s]
    /\ sub_open' = [sub_open EXCEPT ![s] = FALSE]
    /\ sse_clients' = sse_clients \ {s}
    /\ queues' = [queues EXCEPT ![s] = <<>>]
    /\ UNCHANGED << codec, status, cpc, creq, chtml, ret, created, task, transport_cache,
                    constructed, pn_uid, rst_pin, ready_led, tag_cc, tag_mem,
                    config_verify, budget, faults_left >>

\* ------------------------------------------------------------ start_writer
\* faulty variants of the guard: it never rejects; it looks at the phase and rejects
\* only while verifying
RejectsNever(st) == FALSE

RejectsWhileVerifying(st) == st.phase = "verifying"

\* faulty variant of the guard: it rejects only while the phase is writing
RejectsWhileWriting(st) == st.phase = "writing"

\* the guard of start_writer, evaluated under status_lock
Rejects(st) == st.running

\* faulty variant of the reset: the result of the last session is kept
SessionStartKeepsResult(st, uri) ==
    [st EXCEPT !.running = TRUE, !.wrote_uri = uri, !.phase = "writing"]

\* the status.update of an accepted start_writer
SessionStart(st, uri) ==
    [st EXCEPT !.running = TRUE, !.ok = "None", !.message = "", !.wrote_uri = uri,
               !.uid = "None", !.records = <<>>, !.phase = "writing"]

\* start_writer, up to the release of status_lock: rejected (returns None), or the
\* status is reset for the new session
StartWriter(c, uri, kind) ==
    /\ cpc[c] = "ready"
    /\ IF Rejects(status)
       THEN /\ cpc' = [cpc EXCEPT ![c] = "poll"]
            /\ ret' = [ret EXCEPT ![c] = "None"]
            /\ created' = [created EXCEPT ![c] = FALSE]
            /\ UNCHANGED << status, budget, creq >>
       ELSE /\ budget > 0
            /\ \E t \in Tasks : task[t].pc = "free"
            /\ creq' = [creq EXCEPT ![c] = [uri |-> uri, transport |-> kind]]
            /\ status' = SessionStart(status, uri)
            /\ budget' = budget - 1
            /\ cpc' = [cpc EXCEPT ![c] = "sw_render"]
            /\ created' = [created EXCEPT ![c] = TRUE]
            /\ UNCHANGED ret
    /\ UNCHANGED << codec, sse_clients, queues, sub_open, chtml, task, transport_cache,
                    constructed, pn_uid, rst_pin, ready_led, tag_cc, tag_mem,
                    config_verify, faults_left >>

\* _broadcast_status in start_writer: render the current status ...
CallerRender(c) ==
    /\ cpc[c] = "sw_render"
    /\ chtml' = [chtml EXCEPT ![c] = Render(StatusContext, config_verify)]
    /\ cpc' = [cpc EXCEPT ![c] = "sw_put"]
    /\ UNCHANGED << codec, status, sse_clients, queues, sub_open, creq, ret, created, task,
                    transport_cache, constructed, pn_uid, rst_pin, ready_led, tag_cc,
                    tag_mem, config_verify, budget, faults_left >>

\* ... and fan it out
CallerPut(c) ==
    /\ cpc[c] = "sw_put"
    /\ FanOut(chtml[c])
    /\ chtml' = [chtml EXCEPT ![c] = NoHtml]
    /\ cpc' = [cpc EXCEPT ![c] = "sw_spawn"]
    /\ UNCHANGED << codec, status, sub_open, creq, ret, created, task, transport_cache,
                    constructed, pn_uid, rst_pin, ready_led, tag_cc, tag_mem,
                    config_verify, budget, faults_left >>

\* threading.Thread(target=_task).start(), then start_writer returns None
Spawn(c) ==
    /\ cpc[c] = "sw_spawn"
    /\ \E t \in Tasks :
          /\ task[t].pc = "free"
          /\ \A u \in Tasks : task[u].pc = "free" => t <= u
          /\ task' = [task EXCEPT ![t] = [FreeTask EXCEPT !.pc = "enable",
                                             !.uri = creq[c].uri,
                                             !.transport = creq[c].transport]]
    /\ ret' = [ret EXCEPT ![c] = "None"]
    /\ creq' = [creq EXCEPT ![c] = [uri |-> <<>>, transport |-> ""]]
    /\ cpc' = [cpc EXCEPT ![c] = "poll"]
    /\ UNCHANGED << codec, status, sse_clients, queues, sub_open, chtml, created,
                    transport_cache, constructed, pn_uid, rst_pin, ready_led, tag_cc,
                    tag_mem, config_verify, budget, faults_left >>

\* index(): the wait loop after start_writer ends when running is false or after
\* 5 seconds, and the request returns its redirect
PollReturn(c) ==
    /\ cpc[c] = "poll"
    /\ \E timeout \in BOOLEAN : ~status.running \/ timeout
    /\ cpc' = [cpc EXCEPT ![c] = "ready"]
    /\ created' = [created EXCEPT ![c] = FALSE]
    /\ UNCHANGED << codec, status, sse_clients, queues, sub_open, creq, chtml, ret,
                    task, transport_cache, constructed, pn_uid, rst_pin, ready_led,
                    tag_cc, tag_mem, config_verify, budget, faults_left >>

\* --------------------------------------------------------------------- tag
\* one page of the tag: page 3 is the CC, a page never written reads as zero
PageAt(cc, mem, q) == IF q = 3 THEN cc
                      ELSE IF q \in DOMAIN mem THEN mem[q] ELSE <<0, 0, 0, 0>>

\* Type2Transport.read16 on a tag that answers: four consecutive pages
Read16(cc, mem, p) ==
    PageAt(cc, mem, p) \o PageAt(cc, mem, p + 1) \o PageAt(cc, mem, p + 2)
        \o PageAt(cc, mem, p + 3)

\* Ntag21xWriter._read_cc on the 16 bytes of pages 0..3: the capacity, 0 for None
CapacityOf(blk0) == IF At(blk0, 12) = NdefMagic THEN At(blk0, 14) * 8 ELSE 0

\* faulty variant of the capacity check: every capacity passes
CapacityAcceptedAny(cap) == TRUE

\* the capacities write_with_ntag_writer accepts
CapacityAccepted(cap) == cap \in AcceptedCapacities

\* faulty variant of the capacity check: a range instead of the four sizes
CCVerdictByRange(blk0) ==
    IF At(blk0, 12) # NdefMagic THEN "not_ndef"
    ELSE IF CapacityOf(blk0) < 496 \/ CapacityOf(blk0) > 888 THEN "capacity"
    ELSE "accepted"

\* the two checks of write_with_ntag_writer on the CC read
CCVerdict(blk0) ==
    IF At(blk0, 12) # NdefMagic THEN "not_ndef"
    ELSE IF ~CapacityAccepted(CapacityOf(blk0)) THEN "capacity"
    ELSE "accepted"

\* faulty variant of the loop guard: off by one
PastLastPageOffByOne(page, last) == page > last + 1

\* the guard of the write loop: the page lies past the last user page
PastLastPage(page, last) == page > last

\* the write loop of write_with_ntag_writer: for off = 0, 4, 8, ... the page
\* FirstUserPage + off // 4 gets tlv[off:off+4] by write4, until the TLV is
\* written, or the page lies past the last user page (raise "Out of user pages"),
\* or write4 raises: for a chunk that is not 4 bytes, or because the transport
\* fails the WRITE (at page fault).  Iteration k stops the loop when StopsAt(k);
\* the iterations before the first such k have written their pages, in order
WritePages(tlv, last, mem, fault) ==
    LET iters       == (Len(tlv) + 3) \div 4
        page(k)     == FirstUserPage + ((4 * k) \div 4)
        data4(k)    == Slice(tlv, 4 * k, 4 * k + 4)
        StopsAt(k)  == PastLastPage(page(k), last) \/ Len(data4(k)) # 4 \/ page(k) = fault
        stops       == {k \in 0..(iters - 1) : StopsAt(k)}
        n           == IF stops = {} THEN iters
                       ELSE CHOOSE k \in stops : \A k2 \in stops : k <= k2
        written     == {page(k) : k \in 0..(n - 1)}
    IN  [res  |-> IF stops = {} THEN "done"
                  ELSE IF PastLastPage(page(n), last) THEN "out_of_pages"
                  ELSE IF Len(data4(n)) # 4 THEN "value_error"
                  ELSE "write_failed",
         mem  |-> [q \in DOMAIN mem \cup written |->
                      IF q \in written THEN data4(q - FirstUserPage) ELSE mem[q]],
         wlog |-> [i \in 1..n |-> page(i - 1)]]

\* faulty variant of the window: every user page is scanned
ScanWindowWhole(first, last) == last - first + 1

\* pages_to_scan of Ntag21xWriter.verify
ScanWindow(first, last) == Min(4 + (256 \div 4), last - first + 1)

\* the first pages of the read16 calls of the read loop, in order
ReadStarts(first, last, pages_to_scan) ==
    LET n == Min((pages_to_scan + 3) \div 4, (last - first) \div 4 + 1)
    IN  [k \in 1..(IF pages_to_scan > 0 /\ first <= last THEN n ELSE 0) |->
            first + 4 * (k - 1)]

\* the read loop of Ntag21xWriter.verify
RECURSIVE ReadLoop(_, _, _, _, _, _)
ReadLoop(cc, mem, p, last, pages_to_scan, buf) ==
    IF pages_to_scan > 0 /\ p <= last
    THEN ReadLoop(cc, mem, p + 4, last, pages_to_scan - 4, buf \o Read16(cc, mem, p))
    ELSE buf

\* Ntag21xWriter.verify on a tag that answers every read
Verify(cc, mem) ==
    LET cap == CapacityOf(Read16(cc, mem, 0))
    IN  IF cc[1] # NdefMagic THEN [err |-> FALSE, out |-> <<>>]
        ELSE LET last == LastUserPage(cap)
                 buf  == ReadLoop(cc, mem, FirstUserPage, last,
                                  ScanWindow(FirstUserPage, last), <<>>)
                 ndef == ScanTlv(buf, 0)
             IN  IF ndef # <<>> THEN ParseNdefRecords(ndef)
                 ELSE [err |-> FALSE, out |-> <<>>]

\* ------------------------------------------------------------------- _task
MsgNotNdef == "Tag is not NDEF-enabled (CC0 != 0xE1)."
MsgCapacity(cap) == "Capacity " \o ToString(cap) \o "B not NTAG215/216 (got "
                        \o ToString(cap) \o ")."
MsgOutOfPages == "Out of user pages while writing TLV."
MsgDone == "Done (verified)"
MsgSent == "Data was sent to the card"

\* faulty variant of the except clauses: the finally block does not disable
CaughtSkipsDisable(tk, kind, text) ==
    [tk EXCEPT !.ok = FALSE,
               !.msg = IF kind = "NfcError" THEN text ELSE "Unexpected error: " \o text,
               !.pc = "final"]

\* faulty variant of the except clauses: the error is swallowed and the session
\* reports success
CaughtAsDone(tk, kind, text) ==
    [tk EXCEPT !.ok = TRUE, !.msg = MsgSent, !.pc = "disable"]

\* the except clauses of _task: NfcError / NDEFWriterError give str(e), any other
\* exception "Unexpected error: ..."; then the finally block runs
Caught(tk, kind, text) ==
    [tk EXCEPT !.ok = FALSE,
               !.msg = IF kind = "NfcError" THEN text ELSE "Unexpected error: " \o text,
               !.pc = "disable"]

\* write_with_ntag_writer returned: _task takes the result and sets ok and msg
Returned(tk, recs, verify) ==
    [tk EXCEPT !.uid = tk.uid_hex, !.records = recs, !.ok = TRUE,
               !.msg = IF verify THEN MsgDone ELSE MsgSent,
               !.pc = "disable"]

\* the thread has made the call op on the hardware (hw lists its calls in order)
Did(tk, op) == [tk EXCEPT !.hw = Append(@, op)]

\* a hardware exchange that raises uses up one of the faults of the behaviour
IsFault(o) == o \in {"NfcError", "Exception"}

Fault(o) ==
    /\ IsFault(o) => faults_left > 0
    /\ faults_left' = IF IsFault(o) THEN faults_left - 1 ELSE faults_left

\* faulty variant of get_transport: the new instance is not kept
ConstructUncached(kind) ==
    /\ constructed' = [constructed EXCEPT ![kind] = @ + 1]
    /\ UNCHANGED transport_cache

\* get_transport under _transport_lock: the cached instance, or a new one
Construct(kind) ==
    /\ transport_cache' = [transport_cache EXCEPT ![kind] = constructed[kind] + 1]
    /\ constructed' = [constructed EXCEPT ![kind] = @ + 1]

\* faulty variant of the clearing: the cached uid is left as it is
ClearedUidKept(cached) == cached

\* t._uid = None, in pn532_enable and in pn532_disable
ClearedUid(cached) == "None"

\* pn532_enable: LED off, reset released, the PN532 transport fetched or built
\* (the constructor may raise), its cached uid cleared
TaskEnable(t, o) ==
    /\ task[t].pc = "enable"
    /\ Fault(o)
    /\ ready_led' = FALSE
    /\ rst_pin' = TRUE
    /\ IF transport_cache.pn532 # 0
       THEN /\ o = "ok"
            /\ pn_uid' = ClearedUid(pn_uid)
            /\ task' = [task EXCEPT ![t].pc = "resolve",
                                    ![t].hw = Append(@, "enable")]
            /\ UNCHANGED << transport_cache, constructed >>
       ELSE IF o = "ok"
       THEN /\ Construct("pn532")
            /\ pn_uid' = ClearedUid(pn_uid)
            /\ task' = [task EXCEPT ![t].pc = "resolve",
                                    ![t].hw = Append(@, "enable")]
       ELSE /\ task' = [task EXCEPT ![t] =
                            Did(Caught(@, o, "PN532 transport failed"), "enable")]
            /\ UNCHANGED << transport_cache, constructed, pn_uid >>
    /\ UNCHANGED << codec, status, sse_clients, queues, sub_open, cpc, creq, chtml, ret, created,
                    tag_cc, tag_mem, config_verify, budget >>

\* write_with_ntag_writer: get_transport(transport)
TaskResolve(t, o) ==
    /\ task[t].pc = "resolve"
    /\ Fault(o)
    /\ LET kind == task[t].transport
       IN  IF kind \notin {"pn532", "acr"}
           THEN /\ o = "ValueError"
                /\ task' = [task EXCEPT ![t] =
                      Did(Caught(@, o, "Unknown transport: " \o kind), "get_transport")]
                /\ UNCHANGED << transport_cache, constructed >>
           ELSE IF transport_cache[kind] # 0
           THEN /\ o = "ok"
                /\ task' = [task EXCEPT ![t].pc = "select",
                                        ![t].tport = transport_cache[kind],
                                        ![t].hw = Append(@, "get_transport")]
                /\ UNCHANGED << transport_cache, constructed >>
           ELSE IF o = "ok"
           THEN /\ Construct(kind)
                /\ task' = [task EXCEPT ![t].pc = "select",
                                        ![t].tport = transport_cache'[kind],
                                        ![t].hw = Append(@, "get_transport")]
           ELSE /\ task' = [task EXCEPT ![t] =
                                Did(Caught(@, o, "transport failed"), "get_transport")]
                /\ UNCHANGED << transport_cache, constructed >>
    /\ UNCHANGED << codec, status, sse_clients, queues, sub_open, cpc, creq, chtml, ret, created,
                    pn_uid, rst_pin, ready_led, tag_cc, tag_mem, config_verify, budget >>

\* faulty variant of the quick select: the failure of wait_for_tag is not
\* caught and ends the write
TaskSelectRaises(t, found) ==
    /\ task[t].pc = "select"
    /\ pn_uid' = IF found /\ task[t].transport = "pn532" THEN TagUid ELSE pn_uid
    /\ task' = [task EXCEPT ![t] = Did(
                   IF found THEN [@ EXCEPT !.uid_hex = TagUid, !.pc = "read_cc"]
                   ELSE Caught(@, "NfcError", "No NFC tag detected (PN532)."), "select")]
    /\ UNCHANGED << codec, status, sse_clients, queues, sub_open, cpc, creq, chtml, ret, created,
                    transport_cache, constructed, rst_pin, ready_led, tag_cc, tag_mem,
                    config_verify, budget, faults_left >>

\* the quick select: wait_for_tag(tries=1) where the transport has it (a failure
\* is printed and ignored), then get_uid_hex
TaskSelect(t, found) ==
    /\ task[t].pc = "select"
    /\ IF task[t].transport = "pn532"
       THEN /\ pn_uid' = IF found THEN TagUid ELSE pn_uid
            /\ task' = [task EXCEPT ![t].uid_hex = pn_uid', ![t].pc = "read_cc",
                                    ![t].hw = Append(@, "select")]
       ELSE /\ task' = [task EXCEPT ![t].uid_hex = IF found THEN TagUid ELSE "None",
                                    ![t].pc = "read_cc",
                                    ![t].hw = Append(@, "select")]
            /\ UNCHANGED pn_uid
    /\ UNCHANGED << codec, status, sse_clients, queues, sub_open, cpc, creq, chtml, ret, created,
                    transport_cache, constructed, rst_pin, ready_led, tag_cc, tag_mem,
                    config_verify, budget, faults_left >>

\* the CC read and the two checks on it
TaskReadCC(t, o) ==
    /\ task[t].pc = "read_cc"
    /\ Fault(o)
    /\ LET blk0 == Read16(tag_cc, tag_mem, 0)
           cap  == CapacityOf(blk0)
       IN  task' = [task EXCEPT ![t] = Did(
                IF o # "ok" THEN Caught(@, o, "read16 failed")
                ELSE IF CCVerdict(blk0) = "not_ndef" THEN Caught(@, "NfcError", MsgNotNdef)
                ELSE IF CCVerdict(blk0) = "capacity"
                     THEN Caught(@, "NfcError", MsgCapacity(cap))
                ELSE [@ EXCEPT !.cap = cap, !.pc = "write"], "read_cc")]
    /\ UNCHANGED << codec, status, sse_clients, queues, sub_open, cpc, creq, chtml, ret, created,
                    transport_cache, constructed, pn_uid, rst_pin, ready_led, tag_cc,
                    tag_mem, config_verify, budget >>

\* the outcome of the post-write step of write_with_ntag_writer when verify is off
AfterWrite(tk, verify) ==
    IF verify THEN [tk EXCEPT !.pc = "set_verifying"] ELSE Returned(tk, <<>>, FALSE)

\* the TLV is built and written page by page; fault is the page at which the
\* transport fails the WRITE (0: at none)
TaskWrite(t, fault, o) ==
    /\ task[t].pc = "write"
    /\ Fault(o)
    /\ (fault = 0) = (o = "ok")
    /\ LET tlv == BuildTlv(NdefUriBytes(task[t].uri))
           w   == WritePages(tlv, LastUserPage(task[t].cap), tag_mem, fault)
           tk  == [task[t] EXCEPT !.wlog = w.wlog]
       IN  /\ fault # 0 => w.res = "write_failed"
           /\ tag_mem' = w.mem
           /\ task' = [task EXCEPT ![t] = Did(
                 IF w.res = "done" THEN AfterWrite(tk, config_verify)
                 ELSE IF w.res = "out_of_pages" THEN Caught(tk, "NfcError", MsgOutOfPages)
                 ELSE IF w.res = "value_error"
                      THEN Caught(tk, "Exception", "WRITE needs exactly 4 bytes")
                 ELSE Caught(tk, o, "write4 failed"), "write")]
    /\ UNCHANGED << codec, status, sse_clients, queues, sub_open, cpc, creq, chtml, ret, created,
                    transport_cache, constructed, pn_uid, rst_pin, ready_led, tag_cc,
                    config_verify, budget >>

\* _set_phase: the phase is set under status_lock, the broadcast follows
SetPhase(st, phase) == [st EXCEPT !.phase = phase]

TaskSetVerifying(t) ==
    /\ task[t].pc = "set_verifying"
    /\ status' = SetPhase(status, "verifying")
    /\ task' = [task EXCEPT ![t].pc = "v_render"]
    /\ UNCHANGED << codec, sse_clients, queues, sub_open, cpc, creq, chtml, ret, created,
                    transport_cache, constructed, pn_uid, rst_pin, ready_led, tag_cc,
                    tag_mem, config_verify, budget, faults_left >>

\* _broadcast_status in the writer thread (after _set_phase and after the final
\* status update): render the current status ...
TaskRender(t) ==
    /\ task[t].pc \in {"v_render", "f_render"}
    /\ task' = [task EXCEPT ![t].html = Render(StatusContext, config_verify),
                            ![t].pc = IF @ = "v_render" THEN "v_put" ELSE "f_put"]
    /\ UNCHANGED << codec, status, sse_clients, queues, sub_open, cpc, creq, chtml, ret, created,
                    transport_cache, constructed, pn_uid, rst_pin, ready_led, tag_cc,
                    tag_mem, config_verify, budget, faults_left >>

\* ... and fan it out; after the final broadcast the thread ends
TaskPut(t) ==
    /\ task[t].pc \in {"v_put", "f_put"}
    /\ FanOut(task[t].html)
    /\ task' = [task EXCEPT ![t] = IF @.pc = "v_put"
                                   THEN [@ EXCEPT !.html = NoHtml, !.pc = "verify"]
                                   ELSE FreeTask]
    /\ UNCHANGED << codec, status, sub_open, cpc, creq, chtml, ret, created, transport_cache,
                    constructed, pn_uid, rst_pin, ready_led, tag_cc, tag_mem,
                    config_verify, budget, faults_left >>

\* what write_with_ntag_writer does with the list verify returned
VerifyResult(tk, recs) == Returned(tk, recs, TRUE)

\* records = writer.verify(): the CC read and the window reads may raise, so may
\* the record parser; otherwise the decoded records are returned
TaskVerify(t, o) ==
    /\ task[t].pc = "verify"
    /\ Fault(o)
    /\ LET v == Verify(tag_cc, tag_mem)
           last == LastUserPage(CapacityOf(Read16(tag_cc, tag_mem, 0)))
           reads == ReadStarts(FirstUserPage, last, ScanWindow(FirstUserPage, last))
       IN  task' = [task EXCEPT ![t] = Did(
                IF o # "ok" THEN Caught(@, o, "read16 failed")
                ELSE IF v.err
                THEN Caught([@ EXCEPT !.rlog = reads], "Exception", "index out of range")
                ELSE VerifyResult([@ EXCEPT !.rlog = reads], v.out), "verify")]
    /\ UNCHANGED << codec, status, sse_clients, queues, sub_open, cpc, creq, chtml, ret, created,
                    transport_cache, constructed, pn_uid, rst_pin, ready_led, tag_cc,
                    tag_mem, config_verify, budget >>

\* faulty variant of pn532_disable: the reset line is left as it is
TaskDisableLeavesReset(t, o, reset_done) ==
    /\ task[t].pc = "disable"
    /\ Fault(o)
    /\ o \in {"ok", "Exception"}
    /\ pn_uid' = IF o = "ok" \/ reset_done THEN ClearedUid(pn_uid) ELSE pn_uid
    /\ ready_led' = IF o = "ok" THEN TRUE ELSE ready_led
    /\ task' = [task EXCEPT ![t].pc = IF o = "ok" THEN "final" ELSE "crashed",
                            ![t].hw = Append(@, "disable")]
    /\ UNCHANGED << codec, status, sse_clients, queues, sub_open, cpc, creq, chtml, ret, created,
                    transport_cache, constructed, rst_pin, tag_cc, tag_mem, config_verify,
                    budget >>

\* the finally block of _task starts with pn532_disable(): reset held low, the
\* cached uid cleared, LED on.  It is not guarded: when it raises (the GPIO write,
\* or the LED timer's thread start) the exception leaves _task and the thread
\* ends without the status update; reset_done tells whether the reset line was
\* already driven low
TaskDisable(t, o, reset_done) ==
    /\ task[t].pc = "disable"
    /\ Fault(o)
    /\ o \in {"ok", "Exception"}
    /\ IF o = "ok"
       THEN /\ reset_done
            /\ rst_pin' = FALSE
            /\ pn_uid' = ClearedUid(pn_uid)
            /\ ready_led' = TRUE
            /\ task' = [task EXCEPT ![t].pc = "final",
                                    ![t].hw = Append(@, "disable")]
       ELSE /\ rst_pin' = IF reset_done THEN FALSE ELSE rst_pin
            /\ pn_uid' = IF reset_done THEN ClearedUid(pn_uid) ELSE pn_uid
            /\ UNCHANGED ready_led
            /\ task' = [task EXCEPT ![t].pc = "crashed",
                                    ![t].hw = Append(@, "disable")]
    /\ UNCHANGED << codec, status, sse_clients, queues, sub_open, cpc, creq, chtml, ret, created,
                    transport_cache, constructed, tag_cc, tag_mem, config_verify, budget >>

\* faulty variant of the final update: the phase is left as it is
SessionEndKeepsPhase(st, tk) ==
    [st EXCEPT !.running = FALSE, !.ok = IF tk.ok THEN "True" ELSE "False",
               !.message = tk.msg, !.uid = tk.uid, !.records = tk.records]

\* the status.update of the finally block
SessionEnd(st, tk) ==
    [st EXCEPT !.running = FALSE, !.ok = IF tk.ok THEN "True" ELSE "False",
               !.message = tk.msg, !.uid = tk.uid, !.records = tk.records,
               !.phase = "idle"]

TaskFinal(t) ==
    /\ task[t].pc = "final"
    /\ status' = SessionEnd(status, task[t])
    /\ task' = [task EXCEPT ![t].pc = "f_render"]
    /\ UNCHANGED << codec, sse_clients, queues, sub_open, cpc, creq, chtml, ret, created,
                    transport_cache, constructed, pn_uid, rst_pin, ready_led, tag_cc,
                    tag_mem, config_verify, budget, faults_left >>

\* ------------------------------------------------------------ specification
\* the steps of the writer threads
TaskStep ==
    \/ \E t \in Tasks, o \in Outcomes : TaskEnable(t, o)
    \/ \E t \in Tasks, o \in ResolveOutcomes : TaskResolve(t, o)
    \/ \E t \in Tasks, found \in BOOLEAN : TaskSelect(t, found)
    \/ \E t \in Tasks, o \in Outcomes : TaskReadCC(t, o)
    \/ \E t \in Tasks, fault \in {0} \cup (FirstUserPage..MaxFaultPage), o \in Outcomes :
          TaskWrite(t, fault, o)
    \/ \E t \in Tasks : TaskSetVerifying(t)
    \/ \E t \in Tasks : TaskRender(t)
    \/ \E t \in Tasks : TaskPut(t)
    \/ \E t \in Tasks, o \in Outcomes : TaskVerify(t, o)
    \/ \E t \in Tasks, o \in Outcomes, reset_done \in BOOLEAN : TaskDisable(t, o, reset_done)
    \/ \E t \in Tasks : TaskFinal(t)

\* the steps of a request thread after start_writer took its decision
CallerStep(c) ==
    \/ CallerRender(c)
    \/ CallerPut(c)
    \/ Spawn(c)
    \/ PollReturn(c)

\* the coordinator: concurrent requests, subscribers, two sessions
Next ==
    \/ \E c \in Callers, uri \in CoordUris, kind \in CoordKinds :
          StartWriter(c, uri, kind)
    \/ \E c \in Callers : CallerStep(c)
    \/ TaskStep
    \/ \E s \in CoordSubs : Subscribe(s)
    \/ \E s \in CoordSubs : Consume(s)
    \/ \E s \in CoordSubs : Disconnect(s)

Spec == Init /\ [][Next]_vars

\* the writer: one request thread, every tag and URI, one session
NextWriter ==
    \/ \E uri \in Uris, kind \in Kinds : StartWriter(1, uri, kind)
    \/ CallerStep(1)
    \/ TaskStep

SpecWriter == InitWriter /\ [][NextWriter]_vars

\* the fan-out: one request thread, one tag and URI, a tag that is always
\* found, no hardware fault, sessions enough to fill a queue, and two
\* subscribers that connect before the first session and stay connected, of
\* which only the last reads its queue
InitFanOut == Boot(CoordTagCCs, FanOutSessions, 0) /\ codec = CodecOff

NextFanOut ==
    \/ StartWriter(1, ShortUri, "pn532")
    \/ CallerStep(1)
    \/ \E t \in Tasks : TaskEnable(t, "ok")
    \/ \E t \in Tasks : TaskResolve(t, "ok")
    \/ \E t \in Tasks : TaskSelect(t, TRUE)
    \/ \E t \in Tasks : TaskReadCC(t, "ok")
    \/ \E t \in Tasks : TaskWrite(t, 0, "ok")
    \/ \E t \in Tasks : TaskSetVerifying(t)
    \/ \E t \in Tasks : TaskRender(t)
    \/ \E t \in Tasks : TaskPut(t)
    \/ \E t \in Tasks : TaskVerify(t, "ok")
    \/ \E t \in Tasks : TaskDisable(t, "ok", TRUE)
    \/ \E t \in Tasks : TaskFinal(t)
    \/ \E s \in Subs : budget = FanOutSessions /\ Subscribe(s)
    \/ Consume(FanOutSubs)

SpecFanOut == InitFanOut /\ [][NextFanOut]_vars

\* consecutive sessions: one request thread that asks for one of two URIs on the
\* PN532, a tag that is found or not, hardware faults, and a subscriber
InitSessions == Boot(CoordTagCCs, MaxSessions, MaxFaults) /\ codec = CodecOff

NextSessions ==
    \/ \E uri \in SessionUris : StartWriter(1, uri, "pn532")
    \/ CallerStep(1)
    \/ TaskStep
    \/ \E s \in CoordSubs : Subscribe(s)
    \/ \E s \in CoordSubs : Consume(s)
    \/ \E s \in CoordSubs : Disconnect(s)

SpecSessions == InitSessions /\ [][NextSessions]_vars

\* ------------------------------------------------------- codec on its own
\* "k" followed by n - 1 times "a": n characters that start with no table prefix
Filler(n) == <<107>> \o [i \in 1..(n - 1) |-> 97]

\* the lengths around the two switches: an NDEF message of 254 and of 255 bytes
\* (249 and 250 characters), a payload of 255 and of 256 bytes (254 and 255
\* characters), and 300 characters
FillerLens == {249, 250, 254, 255, 300}

\* URIs that start with no table prefix: "kaspa:a", "x", one non-ASCII character
\* (U+00E9), and the fillers
PlainUris == { <<107,97,115,112,97,58,97>>, <<120>>, <<233>> }
                \cup {Filler(n) : n \in FillerLens}

\* URIs that are a table prefix exactly (the empty one included)
PrefixUris == {prefixes[i] : i \in 1..Len(prefixes)}

\* URIs with a prefix and a tail: the short one, and "https://" with a tail that
\* makes a payload of 255 and of 256 bytes
TailUris == {ShortUri} \cup {prefixes[5] \o [i \in 1..n |-> 97] : n \in {254, 255}}

\* every table prefix followed by "x": "urn:epc:id:x" starts with three entries
PrefixXUris == {prefixes[i] \o <<120>> : i \in 1..Len(prefixes)}

CodecUris == PlainUris \cup PrefixUris \cup TailUris \cup PrefixXUris

\* the pages 0..3 a tag may answer with: any capacity code, under the NDEF magic
\* byte and under two other first bytes
CodecCCs == {<<m, 16, code, 0>> : m \in {225, 224, 0}, code \in 0..255}

\* 300 bytes of every value
Bytes300 == [i \in 1..300 |-> i % 256]

\* read-back buffers with the value their scan has to give: the extended length,
\* leading NULLs, a terminator first, a lock-control TLV before the message, two
\* messages, a value cut short, a length cut short, nothing, an empty message
CodecBufs ==
    { [buf |-> <<3, 255, 1, 44>> \o Bytes300 \o <<254>>, want |-> Bytes300],
      [buf |-> <<0, 0, 3, 2, 171, 205, 254, 0>>,         want |-> <<171, 205>>],
      [buf |-> <<254, 3, 1, 9>>,                          want |-> <<>>],
      [buf |-> <<1, 3, 160, 16, 68, 3, 1, 7, 254>>,       want |-> <<7>>],
      [buf |-> <<3, 1, 5, 3, 1, 6, 254>>,                 want |-> <<5>>],
      [buf |-> <<3, 5, 1, 2>>,                            want |-> <<>>],
      [buf |-> <<3, 255, 1>>,                             want |-> <<>>],
      [buf |-> <<>>,                                      want |-> <<>>],
      [buf |-> <<3, 0, 254, 0>>,                          want |-> <<>>] }

CcJob(cc) == [CodecOff EXCEPT !.job = "cc", !.pc = "cc", !.cc = cc]
UriJob(uri) == [CodecOff EXCEPT !.job = "uri", !.pc = "uri", !.uri = uri]
BufJob(b) == [CodecOff EXCEPT !.job = "buf", !.pc = "buf", !.buf = b.buf, !.want = b.want]

InitCodec ==
    /\ Boot(CoordTagCCs, 0, 0)
    /\ codec \in {CcJob(cc) : cc \in CodecCCs} \cup {UriJob(u) : u \in CodecUris}
                    \cup {BufJob(b) : b \in CodecBufs}

\* _read_cc on a block whose page 3 is the CC, and the checks on its result
CodecReadCC ==
    /\ codec.pc = "cc"
    /\ LET blk0 == <<4, 161, 178, 207, 195, 212, 229, 246, 0, 72, 0, 0>> \o codec.cc
           cap  == CapacityOf(blk0)
       IN  codec' = [codec EXCEPT !.pc = "cc_done", !.verdict = CCVerdict(blk0),
                                  !.cap = cap,
                                  !.last = IF CCVerdict(blk0) = "accepted"
                                           THEN LastUserPage(cap) ELSE 0]
    /\ UNCHANGED appVars

\* _ndef_uri_bytes(uri)
CodecEncode ==
    /\ codec.pc = "uri"
    /\ codec' = [codec EXCEPT !.pc = "encoded", !.ndef = NdefUriBytes(codec.uri)]
    /\ UNCHANGED appVars

\* the TLV built around the message; written to a tag it is what is read back
CodecWrap ==
    /\ codec.pc = "encoded"
    /\ codec' = [codec EXCEPT !.pc = "buf", !.tlv = BuildTlv(codec.ndef),
                              !.buf = BuildTlv(codec.ndef)]
    /\ UNCHANGED appVars

\* the TLV scan of verify
CodecScan ==
    /\ codec.pc = "buf"
    /\ codec' = [codec EXCEPT !.pc = "scanned", !.scanned = ScanTlv(codec.buf, 0)]
    /\ UNCHANGED appVars

\* the last line of verify: the records of the message found, none without one
CodecParse ==
    /\ codec.pc = "scanned"
    /\ LET r == IF codec.scanned # <<>> THEN ParseNdefRecords(codec.scanned)
                ELSE [err |-> FALSE, out |-> <<>>]
       IN  codec' = [codec EXCEPT !.pc = "parsed", !.records = r.out, !.err = r.err]
    /\ UNCHANGED appVars

NextCodec ==
    \/ CodecReadCC
    \/ CodecEncode
    \/ CodecWrap
    \/ CodecScan
    \/ CodecParse

SpecCodec == InitCodec /\ [][NextCodec]_vars

\* ------------------------------------------------------------------ claims
\* a request thread between its accepted start_writer and the thread start
Starting(c) == cpc[c] \in {"sw_render", "sw_put", "sw_spawn"}

\* a writer thread from its start to its final status update
Working(t) == task[t].pc \in {"enable", "resolve", "select", "read_cc", "write",
                              "set_verifying", "v_render", "v_put", "verify",
                              "disable", "final"}

\* a writer thread that has not ended
Alive(t) == task[t].pc \notin {"free", "crashed"}

\* a writer thread in or past the finally block of _task
Finishing(t) == task[t].pc \in {"disable", "final", "f_render", "f_put", "crashed"}

Carriers == Cardinality({c \in Callers : Starting(c)})
                + Cardinality({t \in Tasks : Working(t)})

C2_NeverStuck == status.running => Carriers >= 1

\* C3: a start_writer call made while the session is not idle changes no field
\* of the session, starts no task and touches no hardware.
C3_RejectedCallFrame ==
    [][\A c \in Callers :
          (cpc[c] = "ready" /\ cpc'[c] # "ready" /\ status.phase # "idle")
              => /\ cpc'[c] = "poll"
                 /\ ~created'[c]
                 /\ UNCHANGED << status, task, sse_clients, queues, transport_cache,
                                 constructed, pn_uid, rst_pin, ready_led, tag_mem,
                                 budget >>]_vars

\* a call was rejected while the session was verifying
C3_Witness ==
    \E c \in Callers : cpc[c] = "poll" /\ ~created[c] /\ status.phase = "verifying"

\* C4: start_writer returns accepted=true exactly when the call created a
\* session, and accepted=false when it was rejected.
C4_AcceptedFlag ==
    \A c \in Callers :
        cpc[c] = "poll" => ret[c] = (IF created[c] THEN "True" ELSE "False")

\* C5: the phase moves only along idle->writing, writing->verifying,
\* writing->idle and verifying->idle, and idle->writing only in the step of an
\* accepted start_writer.
C5_PhaseEdges ==
    [][/\ status'.phase # status.phase
            => << status.phase, status'.phase >> \in
                  { <<"idle", "writing">>, <<"writing", "verifying">>,
                    <<"writing", "idle">>, <<"verifying", "idle">> }
       /\ (status.phase = "idle" /\ status'.phase = "writing")
            => \E c \in Callers : /\ cpc[c] = "ready"
                                  /\ cpc'[c] = "sw_render"
                                  /\ created'[c]]_vars

\* the second session of a behaviour has reached verifying
C5_Witness == status.phase = "verifying" /\ budget = 0 /\ MaxSessions >= 2

\* the threads about to render and to fan out the status
Rendering == {<<"c", c>> : c \in {c \in Callers : cpc[c] = "sw_render"}}
                \cup {<<"t", t>> : t \in {t \in Tasks : task[t].pc \in {"v_render", "f_render"}}}

\* C6: every phase transition triggers a broadcast to all current subscribers:
\* the thread that changed the phase goes on to _broadcast_status, and its
\* fan-out appends the rendered status to the queue of every subscriber (one
\* whose queue is full is dropped instead).
Delivered(html) ==
    \A s \in sse_clients :
        \/ s \in sse_clients' /\ queues'[s] = Append(queues[s], html)
        \/ s \notin sse_clients' /\ Len(queues[s]) >= QueueMaxSize

C6_TransitionBroadcasts ==
    [][/\ status'.phase # status.phase => Rendering' # Rendering /\ Rendering \subseteq Rendering'
       /\ \A c \in Callers :
             /\ (cpc[c] = "sw_render" /\ cpc'[c] # "sw_render")
                   => cpc'[c] = "sw_put" /\ chtml'[c] = Render(status, config_verify)
             /\ (cpc[c] = "sw_put" /\ cpc'[c] # "sw_put") => Delivered(chtml[c])
       /\ \A t \in Tasks :
             /\ (task[t].pc \in {"v_render", "f_render"} /\ task'[t].pc # task[t].pc)
                   => /\ task'[t].pc \in {"v_put", "f_put"}
                      /\ task'[t].html = Render(status, config_verify)
             /\ (task[t].pc \in {"v_put", "f_put"} /\ task'[t].pc # task[t].pc)
                   => Delivered(task[t].html)]_vars

\* a subscriber holds the three broadcasts of one session
C6_Witness ==
    \E s \in sse_clients :
        /\ Len(queues[s]) >= 3
        /\ queues[s][1].alert = "Writing"
        /\ queues[s][2].alert = "Verifying"
        /\ queues[s][3].alert = "Wrote and verified"

\* C7: no error raised during the background run escapes the task, every one
\* ends the session with ok=false and a message, and ok=true is reported only
\* when the writer returned.
C7_ErrorsCaught ==
    /\ \A t \in Tasks : task[t].pc # "crashed"
    /\ status.ok = "False" => status.message # ""
    /\ status.ok = "True" => status.message \in {MsgDone, MsgSent}

\* C8: with verify requested, a read-back that yields no record fails the
\* write: a session never ends as a verified success with empty records.
C8_VerifiedHasRecords ==
    (status.phase = "idle" /\ status.ok = "True" /\ config_verify)
        => status.records # <<>>

\* a Capability Container that must be rejected
CCRejected(cc) == cc[1] # 225 \/ (cc[3] * 8) \notin {496, 504, 872, 888}

\* C9: when the CC is rejected or the CC read fails, the write aborts with an
\* error and no write4 was issued: the tag's pages change only in the write loop
\* of a task whose CC was read and accepted.
C9_NoWriteOnRejectedCC ==
    /\ [](\A t \in Tasks :
             /\ CCRejected(tag_cc) => task[t].cap = 0
             /\ task[t].cap = 0 => task[t].wlog = <<>>
             /\ (Finishing(t) /\ task[t].cap = 0)
                   => ~task[t].ok /\ task[t].msg # "" /\ task[t].uid = "None")
    /\ [][tag_mem' # tag_mem
             => \E t \in Tasks : task[t].pc = "write" /\ task[t].cap # 0
                                 /\ ~CCRejected(tag_cc)]_vars

\* a session ended on the capacity check (0x6E * 8 = 880) with the tag untouched
C9_Witness ==
    /\ status.phase = "idle"
    /\ status.ok = "False"
    /\ status.message = MsgCapacity(880)
    /\ tag_mem = << >>

\* the pages 4..last hold the first bytes of the TLV of uri, page last + 1 was
\* never written
PartialTlvOnTag(uri, last) ==
    LET tlv == BuildTlv(NdefUriBytes(uri))
    IN  /\ \A p \in FirstUserPage..last :
              /\ p \in DOMAIN tag_mem
              /\ tag_mem[p] = SubSeq(tlv, 4 * (p - FirstUserPage) + 1,
                                     4 * (p - FirstUserPage) + 4)
        /\ (last + 1) \notin DOMAIN tag_mem

\* C10: a TLV that needs more pages than the tag has fails with "Out of user
\* pages" after write4 was issued for every page from 4 to the last writable page
\* in order (unless the transport failed a WRITE before), page last + 1 is never
\* written and the pages written stay on the tag.
C10_OutOfPages ==
    /\ \A t \in Tasks :
          LET tk   == task[t]
              last == LastUserPage(tk.cap)
              need == Len(BuildTlv(NdefUriBytes(tk.uri))) \div 4
          IN  /\ (tk.pc \in {"disable", "final", "crashed"} /\ tk.cap # 0
                     /\ need > last - FirstUserPage + 1)
                  => /\ ~tk.ok
                     /\ \/ /\ tk.msg = MsgOutOfPages
                           /\ tk.wlog = [i \in 1..(last - FirstUserPage + 1) |->
                                            FirstUserPage + i - 1]
                           /\ PartialTlvOnTag(tk.uri, last)
                        \/ /\ tk.msg \in {"write4 failed", "Unexpected error: write4 failed"}
                           /\ Len(tk.wlog) < last - FirstUserPage + 1
              /\ tk.msg = MsgOutOfPages => need > last - FirstUserPage + 1
    /\ status.message = MsgOutOfPages
          => PartialTlvOnTag(status.wrote_uri, LastUserPage(tag_cc[3] * 8))

\* last writable page 129: the session failed with pages 4..129 written, 130 not
C10_Witness ==
    /\ status.phase = "idle"
    /\ status.ok = "False"
    /\ status.message = MsgOutOfPages
    /\ LastUserPage(tag_cc[3] * 8) = 129
    /\ 129 \in DOMAIN tag_mem
    /\ 130 \notin DOMAIN tag_mem

\* C11: every page index used stays inside the user pages [4, last] with
\* last = 4 + capacity/4 - 1: each write4 of a write targets a page in that range
\* and so does each of the four pages a read16 of the verify window covers.
C11_PagesInRange ==
    \A t \in Tasks :
        LET tk   == task[t]
            last == 4 + (tk.cap \div 4) - 1
        IN  /\ \A i \in DOMAIN tk.wlog : tk.wlog[i] >= 4 /\ tk.wlog[i] <= last
            /\ \A i \in DOMAIN tk.rlog : tk.rlog[i] >= 4 /\ tk.rlog[i] + 3 <= last
            /\ (tk.wlog # <<>> \/ tk.rlog # <<>>) => tk.cap \in {496, 504, 872, 888}

\* on the 504-byte tag (last page 129) a write of pages 4..9 was followed by a
\* verify that read its whole window, 17 blocks, the last one at page 68
C11_Witness ==
    /\ tag_cc[3] * 8 = 504
    /\ \E t \in Tasks :
          /\ Len(task[t].wlog) = 6 /\ task[t].wlog[6] = 9
          /\ Len(task[t].rlog) = 17 /\ task[t].rlog[17] = 68

\* C12: the CC, bytes 12..15 of the block read at page 0, is accepted exactly
\* when its byte 0 is 0xE1 and its byte 2 times 8 is one of 496, 504, 872, 888
\* (0x6E gives 880: rejected; 0x3E gives 496: accepted), and for an accepted
\* capacity the last writable page is 4 + capacity/4 - 1.
C12_CCAcceptance ==
    codec.pc = "cc_done" =>
        /\ (codec.verdict = "accepted")
              <=> (codec.cc[1] = 225 /\ (codec.cc[3] * 8) \in {496, 504, 872, 888})
        /\ codec.verdict = "accepted"
              => /\ codec.cap = codec.cc[3] * 8
                 /\ codec.last = 4 + (codec.cap \div 4) - 1
                 /\ << codec.cap, codec.last >> \in
                       { <<496, 127>>, <<504, 129>>, <<872, 221>>, <<888, 225>> }
        /\ codec.cc = <<225, 16, 110, 0>> => codec.verdict = "capacity" /\ codec.cap = 880
        /\ codec.cc = <<225, 16, 62, 0>> => codec.verdict = "accepted" /\ codec.cap = 496
        /\ codec.cc[1] # 225 => codec.verdict = "not_ndef"

\* the CC with capacity code 0x6E was read and rejected for its capacity of 880
C12_Witness ==
    /\ codec.pc = "cc_done"
    /\ codec.cc = <<225, 16, 110, 0>>
    /\ codec.cap = 880
    /\ codec.verdict = "capacity"

\* C13: round trip: decoding the TLV-wrapped encoding of a URI yields the list
\* of that one URI, for every URI that is a table prefix exactly and for every
\* URI that starts with no table prefix but the empty one.
C13_RoundTrip ==
    (codec.job = "uri" /\ codec.pc = "parsed" /\ codec.uri \in PrefixUris \cup PlainUris)
        => ~codec.err /\ codec.records = << codec.uri >>

\* the bytes of the payload of the URI record of uri: one for the prefix index,
\* and the UTF-8 bytes of what follows the longest table prefix uri starts with
PayloadLen(uri) ==
    LET lens == {Len(prefixes[i]) : i \in {j \in 1..Len(prefixes) :
                                             StartsWith(uri, prefixes[j])}}
        best == CHOOSE n \in lens : \A k \in lens : k <= n
        wide == {i \in (best + 1)..Len(uri) : uri[i] >= 128}
    IN  1 + (Len(uri) - best) + Cardinality(wide)

\* C14: encode sets the short-record flag exactly when the payload (prefix index
\* and UTF-8 tail) is shorter than 256 bytes: up to 255 bytes the header is 0xD1
\* with a 1-byte payload length, from 256 bytes on it is 0xC1 with a 4-byte
\* big-endian payload length.
C14_RecordForm ==
    (codec.job = "uri" /\ codec.pc # "uri") =>
        LET n == PayloadLen(codec.uri)
            m == codec.ndef
        IN  /\ ((m[1] \div 16) % 2 = 1) <=> (n < 256)
            /\ n < 256 => /\ Len(m) = 4 + n
                          /\ SubSeq(m, 1, 4) = <<209, 1, n, 85>>
            /\ n >= 256 => /\ Len(m) = 7 + n
                           /\ SubSeq(m, 1, 7) = <<193, 1, 0, 0, n \div 256, n % 256, 85>>

\* a payload of exactly 256 bytes was encoded in the long form
C14_Witness ==
    /\ codec.pc = "encoded"
    /\ PayloadLen(codec.uri) = 256
    /\ SubSeq(codec.ndef, 1, 7) = <<193, 1, 0, 0, 1, 0, 85>>

\* C15: the TLV built for a write is the tag 0x03, a 1-byte length when the
\* message is shorter than 255 bytes and else 0xFF with the 2-byte big-endian
\* length, the message, the terminator 0xFE, then only zero bytes up to the next
\* multiple of 4.
C15_TlvContainer ==
    (codec.job = "uri" /\ codec.pc \notin {"uri", "encoded"}) =>
        LET m    == codec.ndef
            n    == Len(m)
            body == (IF n < 255 THEN <<3, n>> ELSE <<3, 255, n \div 256, n % 256>>)
                        \o m \o <<254>>
            t    == codec.tlv
        IN  /\ Len(t) % 4 = 0
            /\ Len(t) - Len(body) \in 0..3
            /\ SubSeq(t, 1, Len(body)) = body
            /\ \A i \in (Len(body) + 1)..Len(t) : t[i] = 0

\* a message of exactly 255 bytes was wrapped with the 3-byte length
C15_Witness ==
    /\ codec.job = "uri"
    /\ codec.pc = "buf"
    /\ Len(codec.ndef) = 255
    /\ SubSeq(codec.tlv, 1, 4) = <<3, 255, 0, 255>>

WholeTlvOnTag(uri) ==
    LET tlv == BuildTlv(NdefUriBytes(uri))
    IN  \A k \in 0..(Len(tlv) \div 4 - 1) :
            /\ (FirstUserPage + k) \in DOMAIN tag_mem
            /\ tag_mem[FirstUserPage + k] = SubSeq(tlv, 4 * k + 1, 4 * k + 4)

\* C17: the verify window covers the TLV just written: when the TLV of the URI
\* fits the tag and was written completely, the verify that follows finds it
\* and returns one record, which gives that URI.
C17_WindowCoversTlv ==
    \A t \in Tasks :
        LET tk == task[t]
        IN  (tk.pc \in {"disable", "final"} /\ tk.rlog # <<>>
                /\ Len(tk.wlog) = Len(BuildTlv(NdefUriBytes(tk.uri))) \div 4
                /\ WholeTlvOnTag(tk.uri))
              => /\ Len(tk.records) = 1
                 /\ Len(tk.records[1]) >= Len(tk.uri)
                 /\ SubSeq(tk.records[1], Len(tk.records[1]) - Len(tk.uri) + 1,
                           Len(tk.records[1])) = tk.uri

\* a writer thread from pn532_enable to the end of pn532_disable
OnHardware(t) == task[t].pc \in {"enable", "resolve", "select", "read_cc", "write",
                                 "set_verifying", "v_render", "v_put", "verify",
                                 "disable"}

\* the last call the thread made on the hardware ("" before the first)
LastCall(t) == IF task[t].hw = <<>> THEN "" ELSE task[t].hw[Len(task[t].hw)]

\* C18: no two transport operations run concurrently: at most one thread is
\* between its enable and the end of its disable, and while one is, every other
\* thread has either not started or has completed its disable and published its
\* result.
C18_ExclusiveTransport ==
    /\ Cardinality({t \in Tasks : OnHardware(t)}) <= 1
    /\ \A t, u \in Tasks :
          (t # u /\ OnHardware(t))
              => /\ task[u].pc \in {"free", "f_render", "f_put"}
                 /\ task[u].pc # "free" => LastCall(u) = "disable"

\* the thread of the second session writes while the thread of the first, done
\* with the hardware, still broadcasts
C18_Witness ==
    \E t, u \in Tasks :
        /\ task[t].pc = "write"
        /\ task[t].hw = <<"enable", "get_transport", "select", "read_cc">>
        /\ task[u].pc = "f_put"
        /\ LastCall(u) = "disable"

\* C19: for every accepted write enable is the first call on the hardware,
\* disable is called exactly once, after every other call, on every exit path
\* (an error raised by enable included), and the session is set to idle only by
\* a thread that has called disable.
C19_EnableDisable ==
    /\ [](\A t \in Tasks :
             LET h == task[t].hw
             IN  /\ h # <<>> => h[1] = "enable"
                 /\ \A i \in DOMAIN h : /\ h[i] = "enable" => i = 1
                                        /\ h[i] = "disable" => i = Len(h) /\ i > 1
                 /\ task[t].pc \in {"final", "f_render", "f_put", "crashed"}
                       => LastCall(t) = "disable"
                 /\ (task[t].pc \in {"resolve", "select", "read_cc", "write",
                                     "set_verifying", "v_render", "v_put", "verify",
                                     "disable"})
                       => h # <<>> /\ LastCall(t) # "disable")
    /\ [][status'.phase = "idle" /\ status.phase # "idle"
             => \E t \in Tasks : /\ task[t].pc = "final"
                                 /\ LastCall(t) = "disable"
                                 /\ task'[t].pc = "f_render"
                                 /\ ~rst_pin]_vars

\* enable itself raised: disable was still called, once, before the result
C19_Witness ==
    \E t \in Tasks :
        /\ task[t].pc = "final"
        /\ task[t].hw = <<"enable", "disable">>
        /\ ~task[t].ok

\* C20: get_transport is a lazily created singleton per kind: at most one
\* instance is ever constructed for a kind, once cached it is never replaced and
\* every call returns it; a call with an unknown kind raises and creates nothing.
C20_TransportSingleton ==
    /\ [](/\ \A k \in {"pn532", "acr"} :
                /\ constructed[k] <= 1
                /\ transport_cache[k] = constructed[k]
          /\ \A t \in Tasks :
                task[t].tport # 0 => /\ task[t].transport \in {"pn532", "acr"}
                                     /\ task[t].tport = 1
                                     /\ transport_cache[task[t].transport] = 1)
    /\ [][/\ \A k \in {"pn532", "acr"} :
                transport_cache[k] # 0 => transport_cache'[k] = transport_cache[k]
          /\ \A t \in Tasks :
                (task[t].pc = "resolve" /\ task'[t].pc # "resolve"
                    /\ task[t].transport \notin {"pn532", "acr"})
                  => /\ UNCHANGED << transport_cache, constructed >>
                     /\ task'[t].pc = "disable"
                     /\ ~task'[t].ok
                     /\ task'[t].tport = 0
                     /\ task'[t].msg = "Unexpected error: Unknown transport: "
                                          \o task[t].transport]_vars

\* the second session got the instance the first one had constructed
C20_Witness ==
    /\ budget = 0
    /\ MaxSessions >= 2
    /\ constructed.pn532 = 1
    /\ \E t \in Tasks : task[t].pc = "select" /\ task[t].tport = 1

\* ------------------------------------------------------------------- C21
\* the html a thread is about to fan out, one per thread standing at its put
PutBy(c) == cpc[c] = "sw_put" /\ cpc'[c] # "sw_put"
PutByTask(t) == task[t].pc \in {"v_put", "f_put"} /\ task'[t].pc # task[t].pc

\* what one fan-out of html does to subscriber s
PutEffect(s, html) ==
    IF s \in sse_clients /\ Len(queues[s]) >= QueueMaxSize
    THEN s \notin sse_clients' /\ queues'[s] = queues[s]
    ELSE IF s \in sse_clients
    THEN s \in sse_clients' /\ queues'[s] = Append(queues[s], html)
    ELSE s \notin sse_clients' /\ queues'[s] = queues[s]

\* C21: a broadcast never blocks (a thread standing at its put can always take
\* it), no queue ever holds more than QueueMaxSize snapshots, and one fan-out
\* drops exactly the subscribers whose queue is full, leaves their queue as it
\* is, and appends the html to the queue of every other subscriber
C21_BroadcastNeverBlocks ==
    /\ [](\A s \in Subs : Len(queues[s]) <= QueueMaxSize)
    /\ [](\A c \in Callers : cpc[c] = "sw_put" => ENABLED CallerPut(c))
    /\ [](\A t \in Tasks : task[t].pc \in {"v_put", "f_put"} => ENABLED TaskPut(t))
    /\ [][ /\ \A c \in Callers : PutBy(c) => \A s \in Subs : PutEffect(s, chtml[c])
           /\ \A t \in Tasks : PutByTask(t) => \A s \in Subs : PutEffect(s, task[t].html)
         ]_vars

\* the first subscriber was dropped with a full queue, and the second, still
\* subscribed, holds the snapshot the first one missed
C21_Witness ==
    /\ sub_open[1] /\ 1 \notin sse_clients /\ Len(queues[1]) = QueueMaxSize
    /\ 2 \in sse_clients /\ queues[2] # <<>>
    /\ queues[2][Len(queues[2])] # queues[1][QueueMaxSize]

\* ------------------------------------------------------------------- C22
\* the result fields of a status
ResultFields(st) == << st.ok, st.message, st.uid, st.records, st.wrote_uri >>

\* the step in which start_writer accepts a request
AcceptedStart ==
    /\ ~status.running
    /\ \E c \in Callers : /\ cpc[c] = "ready" /\ cpc'[c] = "sw_render"
                          /\ status' = SessionStart(status, creq'[c].uri)

\* C22: while the phase is idle the result fields (ok, message, uid, records,
\* wrote_uri) are changed by no step but the one in which start_writer accepts
\* the next request: subscriptions, broadcasts, polls and the last steps of a
\* finished thread leave them as they are
C22_ResultPersists ==
    [][ status.phase = "idle" /\ ResultFields(status') # ResultFields(status)
          => AcceptedStart ]_vars

\* a finished session's result is still the status after its final broadcast
\* was fanned out, its thread ended, the request returned and a connected
\* subscriber has nothing left to read
C22_Witness ==
    /\ status.phase = "idle" /\ status.ok = "True" /\ budget < MaxSessions
    /\ \A t \in Tasks : task[t].pc = "free"
    /\ \A c \in Callers : cpc[c] = "ready"
    /\ \E s \in CoordSubs : s \in sse_clients /\ queues[s] = <<>>

\* ------------------------------------------------------------------- C23
\* the payload of a URI record as _ndef_uri_bytes lays it out: after the
\* 4-byte header of a short record, after the 7-byte header of a long one
UriPayload(ndef) ==
    IF ndef[1] = 209 THEN SubSeq(ndef, 5, Len(ndef)) ELSE SubSeq(ndef, 8, Len(ndef))

\* the best-prefix loop run over a table tbl: the entry it ends with
RECURSIVE PrefixLoop(_, _, _, _)
PrefixLoop(tbl, uri, i, best) ==
    IF i > Len(tbl) THEN best
    ELSE PrefixLoop(tbl, uri, i + 1,
                    IF tbl[i] # <<>> /\ StartsWith(uri, tbl[i]) /\ Len(tbl[i]) > Len(best)
                    THEN tbl[i] ELSE best)

\* the table in the opposite order
Reversed(tbl) == [i \in 1..Len(tbl) |-> tbl[Len(tbl) + 1 - i]]

\* "urn:epc:id:x"
UrnEpcIdX == prefixes[31] \o <<120>>

\* C23: the payload of an encoded URI starts with the index of the one longest
\* table entry the URI starts with (0 when it starts with none), every other
\* entry it starts with being strictly shorter, so that the loop over the table
\* in the opposite order ends with the same entry; the index byte is followed
\* by the UTF-8 bytes of the rest of the URI; "urn:epc:id:x" gets index 30
C23_LongestPrefix ==
    codec.job = "uri" /\ codec.pc # "uri" =>
        LET pl == UriPayload(codec.ndef)
            p  == pl[1]
            M  == {j \in 1..(Len(prefixes) - 1) : StartsWith(codec.uri, prefixes[j + 1])}
        IN  /\ p \in 0..(Len(prefixes) - 1)
            /\ M = {} => p = 0
            /\ M # {} => p \in M /\ \A j \in M \ {p} :
                                        Len(prefixes[j + 1]) < Len(prefixes[p + 1])
            /\ PrefixLoop(Reversed(prefixes), codec.uri, 1, <<>>) = prefixes[p + 1]
            /\ Tail(pl) = Utf8Encode(SubSeq(codec.uri, Len(prefixes[p + 1]) + 1,
                                            Len(codec.uri)))
            /\ codec.uri = UrnEpcIdX => p = 30

\* "urn:epc:id:x", which also starts with "urn:" and "urn:epc:", was encoded
\* as index 30 and "x"
C23_Witness ==
    /\ codec.job = "uri" /\ codec.pc = "encoded" /\ codec.uri = UrnEpcIdX
    /\ UriPayload(codec.ndef) = <<30, 120>>

\* ------------------------------------------------------------------- C24
\* C24: the parser reads the payload length of a long record as the encoder
\* writes it (4 bytes, big-endian, after the type-length byte), so the record
\* of a URI whose payload has 256 bytes or more decodes to that one URI (as it
\* is, or under the label the parser gives to URI records)
C24_LongFormRoundTrip ==
    (codec.job = "uri" /\ codec.pc = "parsed" /\ PayloadLen(codec.uri) >= 256)
        => /\ ~codec.err
           /\ codec.records \in { << codec.uri >>, << TxtNdefUri \o codec.uri >> }

\* ------------------------------------------------------------------- C25
\* the pages the TLV of uri takes
TlvPages(uri) == Len(BuildTlv(NdefUriBytes(uri))) \div 4

\* C25: write4 is issued only after the CC was read and accepted, for the pages
\* 4, 5, 6, ... in this order, none skipped or repeated, each with its 4 bytes of
\* the TLV; the phase is verifying only when every page of the TLV was written,
\* and no page is written while it is; a session that ends with ok = true has
\* written every page of the TLV
C25_ProtocolOrder ==
    /\ [](\A t \in Tasks :
             LET tk  == task[t]
                 tlv == BuildTlv(NdefUriBytes(tk.uri))
             IN  /\ tk.wlog # <<>> =>
                       /\ tk.cap \in AcceptedCapacities
                       /\ \E i, j \in DOMAIN tk.hw :
                              i < j /\ tk.hw[i] = "read_cc" /\ tk.hw[j] = "write"
                 /\ \A i \in DOMAIN tk.wlog :
                       /\ tk.wlog[i] = 4 + (i - 1)
                       /\ tag_mem[tk.wlog[i]] = SubSeq(tlv, 4 * i - 3, 4 * i)
                 /\ Len(tk.wlog) <= TlvPages(tk.uri)
                 /\ (Working(t) /\ status.phase = "verifying")
                       => Len(tk.wlog) = TlvPages(tk.uri)
                 /\ (Finishing(t) /\ tk.ok) => Len(tk.wlog) = TlvPages(tk.uri))
    /\ [](status.ok = "True" => WholeTlvOnTag(status.wrote_uri))
    /\ [][status.phase = "verifying"
             => tag_mem' = tag_mem /\ \A t \in Tasks : task'[t].wlog = task[t].wlog]_vars

\* the 516 bytes of the TLV of the long URI were written to the pages 4..132 in
\* order, and the phase is verifying
C25_Witness ==
    /\ status.phase = "verifying"
    /\ \E t \in Tasks :
          /\ task[t].pc = "verify" /\ task[t].uri = LongUri
          /\ task[t].wlog = [i \in 1..129 |-> 3 + i]
          /\ WholeTlvOnTag(LongUri)

\* ------------------------------------------------------------------- C26
\* C26: the quick select never ends the write: found or not, with or without
\* wait_for_tag, the thread goes on to the CC read with its outcome untouched,
\* and no thread reaches its finally block straight from the select
C26_SelectBestEffort ==
    /\ [](\A t \in Tasks : task[t].pc = "disable" => LastCall(t) # "select")
    /\ [][\A t \in Tasks :
             task[t].pc = "select" /\ task'[t] # task[t]
                => /\ task'[t].pc = "read_cc"
                   /\ task'[t].ok = task[t].ok /\ task'[t].msg = task[t].msg
                   /\ faults_left' = faults_left /\ status' = status]_vars

\* a PN532 session whose select found no tag (no uid) wrote the tag and is
\* about to report success
C26_Witness ==
    \E t \in Tasks :
        /\ task[t].pc = "final" /\ task[t].transport = "pn532"
        /\ task[t].ok /\ task[t].uid = "None"
        /\ \E i \in DOMAIN task[t].hw : task[t].hw[i] = "select"
        /\ WholeTlvOnTag(task[t].uri)

\* ------------------------------------------------------------------- C27
\* C27: in every status a thread can read under status_lock, running is true
\* exactly when the phase is writing or verifying, and false exactly when it
\* is idle
C27_RunningIffBusy ==
    /\ status.phase \in {"idle", "writing", "verifying"}
    /\ status.running <=> status.phase \in {"writing", "verifying"}

\* the second session is verifying while the thread of the first one has not
\* yet fanned out its final snapshot
C27_Witness ==
    /\ status.running /\ status.phase = "verifying" /\ budget = 0
    /\ \E t \in Tasks : task[t].pc \in {"f_render", "f_put"}

\* ------------------------------------------------------------------- C28
\* C28: no status mixes two sessions.  While the phase is not idle the result
\* fields hold the reset values and wrote_uri is the URI of the request in
\* flight (of the request thread between its acceptance and the thread start,
\* of the writer thread up to its final update); ok is True or False only while
\* the phase is idle; wrote_uri is set by the accepting step of start_writer,
\* to the URI of that request, and by no other step
C28_NoMixedSnapshot ==
    /\ [](status.phase # "idle"
             => /\ status.ok = "None" /\ status.message = ""
                /\ status.uid = "None" /\ status.records = <<>>)
    /\ [](status.ok \in {"True", "False"} => status.phase = "idle")
    /\ [](\A c \in Callers : Starting(c) => creq[c].uri = status.wrote_uri)
    /\ [](\A t \in Tasks : Working(t) => task[t].uri = status.wrote_uri)
    /\ [][status'.wrote_uri # status.wrote_uri => AcceptedStart]_vars
    /\ [][\A c \in Callers : cpc[c] = "ready" /\ cpc'[c] = "sw_render"
                                 => status'.wrote_uri = creq'[c].uri]_vars

\* the second session, for "tel:1", is in flight with the reset values, after a
\* subscriber got the result of the first one, for the other URI
C28_Witness ==
    /\ status.phase # "idle" /\ status.wrote_uri = TelUri /\ status.ok = "None"
    /\ budget = 0
    /\ \E s \in CoordSubs : \E i \in DOMAIN queues[s] :
          /\ "wrote_uri" \in DOMAIN queues[s][i]
          /\ queues[s][i].wrote_uri = ShortUri

\* ------------------------------------------------------------------- C29
\* the snapshots of a result
FinalAlerts == {"Wrote and verified", "Wrote", "Write failed"}

\* snapshot h2 shows the state change that follows the one h1 shows: within a
\* session writing, verifying (with verification), result; after a result the
\* writing of the next session
FollowsOn(h1, h2) ==
    \/ h1.alert = "Writing" /\ h2.alert \in {"Verifying"} \cup FinalAlerts
    \/ h1.alert = "Verifying" /\ h2.alert \in FinalAlerts
    \/ h1.alert \in FinalAlerts /\ h2.alert = "Writing"

\* no request thread and no writer thread is at work
Quiescent ==
    /\ \A c \in Callers : cpc[c] = "ready"
    /\ \A t \in Tasks : task[t].pc \in {"free", "crashed"}

\* C29: the snapshots in the queue of a subscriber are in the order of the
\* state changes, none of an older session after one of a newer session, and
\* when no thread is at work the last snapshot of a non-empty queue shows the
\* current status
C29_SnapshotOrder ==
    \A s \in CoordSubs : s \in sse_clients =>
        /\ \A i \in 1..(Len(queues[s]) - 1) : FollowsOn(queues[s][i], queues[s][i + 1])
        /\ (Quiescent /\ queues[s] # <<>>)
              => queues[s][Len(queues[s])] = Render(StatusContext, config_verify)

\* ------------------------------------------------------------------- C30
\* C30: on the PN532 the uid a session reports is none or the id its own select
\* obtained: enable has cleared the cached uid before the select, the select
\* reports the id it has just put into the cache or none, and the status takes
\* the uid of the thread that makes the final update
C30_UidOwnSelect ==
    /\ [](\A t \in Tasks :
             (task[t].transport = "pn532" /\ task[t].pc \in {"resolve", "select"})
                => pn_uid = "None")
    /\ [](\A t \in Tasks : task[t].uid \in {"None", task[t].uid_hex})
    /\ [][\A t \in Tasks :
             (task[t].transport = "pn532" /\ task[t].pc = "select"
                 /\ task'[t].pc = "read_cc")
                => task'[t].uid_hex = IF pn_uid' # pn_uid THEN pn_uid' ELSE "None"]_vars
    /\ [][status'.uid # status.uid /\ status'.uid # "None"
             => \E t \in Tasks : task[t].pc = "final" /\ status'.uid = task[t].uid_hex]_vars

\* the second session, whose select found no tag, is about to report success
\* without a uid, after the first one reported the uid of the tag it selected
C30_Witness ==
    /\ budget = 0
    /\ \E t \in Tasks : /\ task[t].pc = "final" /\ task[t].transport = "pn532"
                         /\ task[t].ok /\ task[t].uid = "None"
    /\ \E s \in CoordSubs : \E i \in DOMAIN queues[s] :
          /\ "uid" \in DOMAIN queues[s][i]
          /\ queues[s][i].uid = TagUid

\* ------------------------------------------------------------------- C31
\* C31: the PN532 is out of reset only inside a running session: whenever the
\* status is not running the reset line is low, the line is raised only by the
\* enable of a writer thread while the status is running, and it is low in the
\* step that sets the status back to not running
C31_ResetLowWhenIdle ==
    /\ [](~status.running => ~rst_pin)
    /\ [][~rst_pin /\ rst_pin'
             => /\ status.running
                /\ \E t \in Tasks : task[t].pc = "enable" /\ LastCall(t) = ""]_vars
    /\ [][status.running /\ ~status'.running
             => /\ ~rst_pin /\ ~rst_pin'
                /\ \E t \in Tasks : task[t].pc = "final" /\ LastCall(t) = "disable"]_vars

\* a session that enabled the PN532, wrote the tag and disabled it is back to
\* idle with the reset line low
C31_Witness ==
    /\ ~status.running /\ status.ok = "True" /\ ~rst_pin
    /\ \E t \in Tasks :
          /\ task[t].pc = "f_render"
          /\ task[t].hw # <<>> /\ task[t].hw[1] = "enable"
          /\ LastCall(t) = "disable"
          /\ \E i \in DOMAIN task[t].hw : task[t].hw[i] = "write"

====
